---- MODULE Spec2Model ----
(***************************************************************************)
(* Model of app.py, the Nigeria CNG stations locator (Streamlit).          *)
(*                                                                         *)
(* One run of main() is a walk  start -> filters -> content -> done;       *)
(* Streamlit re-runs the whole script on every widget change (Rerun).      *)
(*                                                                         *)
(* A GeoDataFrame is [kind |-> "GeoDataFrame", rows |-> f], f a function   *)
(* from the frame's index labels to its rows.  Boolean-mask indexing       *)
(* (data[mask]) keeps the labels, so a filtered frame is the restriction   *)
(* of f to the labels whose row passes the mask.  Python's None is the     *)
(* record NoneValue when it stands for a frame and the string None when it *)
(* stands for a selectbox option; a missing attribute (None/NaN in the     *)
(* column) is the string NaN.                                              *)
(*                                                                         *)
(* Coordinates are fixed-point: one unit is 0.0001 degree, and every       *)
(* coordinate is an even number of units so that the midpoint of a         *)
(* bounding box is exact.  0.01, 0.5, 2 and 5 degrees are 100, 5000,       *)
(* 20000 and 50000 units.                                                  *)
(***************************************************************************)
EXTENDS Integers, Sequences, FiniteSets, TLC

VARIABLES
    pc,        \* position of the current run of main()
    data,      \* main's local `data`: the loaded frame, NoneValue, or Unbound
    ws,        \* values taken by main's local `filtered_data`, in order
    sel,       \* what st.sidebar.selectbox returned for State, LGA, Name
    ui,        \* Streamlit elements emitted by the current run
    map,       \* the leafmap.Map built by create_map, or NoMap
    calls,     \* arguments get_bounds was called with in the current run
    exc,       \* exception escaping main in the current run, or "none"
    gb_pc,     \* harness for get_bounds called on its own
    gb_in,
    gb_out

vars == <<pc, data, ws, sel, ui, map, calls, exc, gb_pc, gb_in, gb_out>>

(* ----------------------------- bounds -------------------------------- *)

MaxRows == 2      \* features in the GeoJSON file
MaxPoints == 2    \* rows of a frame handed to get_bounds on its own

(* ---------------------------- constants ------------------------------ *)

\* app.py:9  DEFAULT_CENTER = [9.0820, 8.6753]
DEFAULT_CENTER == <<90820, 86753>>
\* app.py:10
DEFAULT_ZOOM == 5

None == "None"
NaN == "NaN"
NoneValue == [kind |-> "None"]
Unbound == [kind |-> "unbound"]
NoMap == [kind |-> "nomap"]

\* app.py:312  for column in ["State", "LGA", "Name"]
Columns == <<"State", "LGA", "Name">>

(* ------------------------- GeoDataFrame ------------------------------ *)

GeoDataFrame(rows) == [kind |-> "GeoDataFrame", rows |-> rows]

Index(gdf) == DOMAIN gdf.rows

\* gdf.empty
Empty(gdf) == Index(gdf) = {}

\* gdf[mask]: the rows whose label is in keep, labels kept
Take(gdf, keep) == GeoDataFrame([i \in keep |-> gdf.rows[i]])

\* gdf[col].dropna().unique()
Unique(gdf, col) == {gdf.rows[i][col] : i \in Index(gdf)} \ {NaN}

\* bool(selection) for a selectbox option: None and "" are falsy
Truthy(v) == v # None /\ v # ""

(* --------------------------- load_data ------------------------------- *)

StateValues == {"", "Lagos", "Kano"}
LGAValues == {NaN, "Ikeja", "Epe"}
NameValues == {"StationA", "StationB"}
Geometries == {<<33000, 65000>>, <<85000, 120000>>}

Features ==
    [State : StateValues, LGA : LGAValues, Name : NameValues, geometry : Geometries]

\* outcomes of gpd.read_file(file_path): a frame of 0..MaxRows features
\* labelled 1..n, or an exception
ReadOk(f) == [ok |-> TRUE, gdf |-> GeoDataFrame(f)]
ReadErrors ==
    {[ok |-> FALSE, error |-> e] :
       e \in {"unreachable resource", "malformed GeoJSON", "parse failure"}}

\* mutant: no try/except around gpd.read_file
load_data_uncaught(read) ==
    IF read.ok
    THEN [ret |-> read.gdf, ui |-> {}, raised |-> "none"]
    ELSE [ret |-> Unbound, ui |-> {}, raised |-> read.error]

load_data(read) ==
    IF read.ok
    THEN [ret |-> read.gdf, ui |-> {}, raised |-> "none"]
    ELSE [ret |-> NoneValue, ui |-> {"error"}, raised |-> "none"]

(* -------------------------- filter_data ------------------------------ *)

\* mutant: the options are the distinct values of the full dataset
col_unique_list_full(gdf, col_name) == {None} \cup Unique(data, col_name)

\* app.py:33; the list is sorted, which changes what is offered in no way
col_unique_list(gdf, col_name) == {None} \cup Unique(gdf, col_name)

\* mutant: the mask is applied whatever the selection
filter_data_always(gdf, col_name, selection) ==
    Take(gdf, {i \in Index(gdf) : gdf.rows[i][col_name] = selection})

\* mutant: the mask is taken over the full dataset, not the working set
filter_data_full(gdf, col_name, selection) ==
    IF Truthy(selection)
    THEN Take(data, {i \in Index(data) : data.rows[i][col_name] = selection})
    ELSE gdf

\* app.py:38-44, selection being what the selectbox of line 36 returned
filter_data(gdf, col_name, selection) ==
    IF Truthy(selection)
    THEN Take(gdf, {i \in Index(gdf) : gdf.rows[i][col_name] = selection})
    ELSE gdf

(* --------------------------- get_bounds ------------------------------ *)

Min(S) == CHOOSE x \in S : \A y \in S : x <= y
Max(S) == CHOOSE x \in S : \A y \in S : x >= y

Xs(gdf) == {gdf.rows[i].geometry[1] : i \in Index(gdf)}
Ys(gdf) == {gdf.rows[i].geometry[2] : i \in Index(gdf)}

\* gdf.total_bounds
total_bounds(gdf) == <<Min(Xs(gdf)), Min(Ys(gdf)), Max(Xs(gdf)), Max(Ys(gdf))>>

Raise(e) == [raised |-> e]
Return(lat, lon, zoom) ==
    [raised |-> "none", center_lat |-> lat, center_lon |-> lon, zoom |-> zoom]

\* mutant: the thresholds are exclusive
zoom_level_strict(max_diff) ==
    IF max_diff < 100 THEN 12
    ELSE IF max_diff < 5000 THEN 10
    ELSE IF max_diff < 20000 THEN 8
    ELSE IF max_diff < 50000 THEN 6
    ELSE 4

\* app.py:83-92
zoom_level(max_diff) ==
    IF max_diff <= 100 THEN 12
    ELSE IF max_diff <= 5000 THEN 10
    ELSE IF max_diff <= 20000 THEN 8
    ELSE IF max_diff <= 50000 THEN 6
    ELSE 4

\* mutant: the emptiness check is missing and an empty frame gets the defaults
get_bounds_no_check(gdf) ==
    IF Empty(gdf)
    THEN Return(DEFAULT_CENTER[1], DEFAULT_CENTER[2], DEFAULT_ZOOM)
    ELSE LET b == total_bounds(gdf)
         IN  Return((b[2] + b[4]) \div 2, (b[1] + b[3]) \div 2,
                    zoom_level(Max({b[4] - b[2], b[3] - b[1]})))

\* app.py:66-97.  The ValueError of line 68 is caught at line 96 and raised
\* again as a ValueError.
get_bounds(gdf) ==
    IF Empty(gdf)
    THEN Raise("ValueError")
    ELSE LET b == total_bounds(gdf)
             minx == b[1]
             miny == b[2]
             maxx == b[3]
             maxy == b[4]
             center_lat == (miny + maxy) \div 2
             center_lon == (minx + maxx) \div 2
             lat_diff == maxy - miny
             lon_diff == maxx - minx
             max_diff == Max({lat_diff, lon_diff})
         IN  Return(center_lat, center_lon, zoom_level(max_diff))

(* --------------------------- create_map ------------------------------ *)

Layers(d, filtered_data) ==
    (IF d # NoneValue THEN {"All CNG Stations"} ELSE {})
    \cup (IF filtered_data # NoneValue /\ ~Empty(filtered_data)
          THEN {"Filtered Stations"} ELSE {})

\* app.py:99-142: the map, the frames get_bounds was called with, and the
\* exception that escapes
create_map(d, filtered_data) ==
    IF filtered_data # NoneValue /\ ~Empty(filtered_data)
    THEN LET r == get_bounds(filtered_data)
         IN  IF r.raised # "none"
             THEN [map |-> NoMap, calls |-> <<filtered_data>>, raised |-> r.raised]
             ELSE [map |-> [kind |-> "map",
                            center |-> <<r.center_lat, r.center_lon>>,
                            zoom |-> r.zoom,
                            layers |-> Layers(d, filtered_data)],
                   calls |-> <<filtered_data>>,
                   raised |-> "none"]
    ELSE [map |-> [kind |-> "map",
                   center |-> DEFAULT_CENTER,
                   zoom |-> DEFAULT_ZOOM,
                   layers |-> Layers(d, filtered_data)],
          calls |-> <<>>,
          raised |-> "none"]

(* ------------------------------ main --------------------------------- *)

\* app.py:330-350: the information sections, images and the about box
InfoSections == {"conversion_program_info", "images", "about"}

\* mutant: neither main nor the map code looks at .empty
main_content_unguarded(d, filtered_data) ==
    LET r == get_bounds(filtered_data)
    IN  IF r.raised # "none"
        THEN [ui |-> {"statistics"}, map |-> NoMap,
              calls |-> <<filtered_data>>, raised |-> r.raised]
        ELSE [ui |-> {"statistics", "map"} \cup InfoSections,
              map |-> [kind |-> "map",
                       center |-> <<r.center_lat, r.center_lon>>,
                       zoom |-> r.zoom,
                       layers |-> Layers(d, filtered_data)],
              calls |-> <<filtered_data>>, raised |-> "none"]

\* mutant: the test of line 316 has lost its `not`
main_content_inverted(d, filtered_data) ==
    IF Empty(filtered_data)
    THEN LET m == create_map(d, filtered_data)
         IN  [ui |-> {"statistics", "map"} \cup InfoSections,
              map |-> m.map, calls |-> m.calls, raised |-> m.raised]
    ELSE [ui |-> {"warning"} \cup InfoSections,
          map |-> NoMap, calls |-> <<>>, raised |-> "none"]

\* app.py:315-350
main_content(d, filtered_data) ==
    IF ~Empty(filtered_data)
    THEN LET m == create_map(d, filtered_data)
         IN  IF m.raised # "none"
             THEN [ui |-> {"statistics"}, map |-> NoMap,
                   calls |-> m.calls, raised |-> m.raised]
             ELSE [ui |-> {"statistics", "map"} \cup InfoSections,
                   map |-> m.map, calls |-> m.calls, raised |-> "none"]
    ELSE [ui |-> {"warning"} \cup InfoSections,
          map |-> NoMap, calls |-> <<>>, raised |-> "none"]

(* ----------------------------- actions ------------------------------- *)

MainIdle ==
    /\ pc = "start"
    /\ data = Unbound
    /\ ws = <<>>
    /\ sel = <<>>
    /\ ui = {}
    /\ map = NoMap
    /\ calls = <<>>
    /\ exc = "none"

HarnessIdle ==
    /\ gb_pc = "idle"
    /\ gb_in = GeoDataFrame(<<>>)
    /\ gb_out = Raise("not called")

Init == MainIdle /\ HarnessIdle

\* app.py:294-299
MainLoaded(read) ==
    LET r == load_data(read)
    IN  /\ ui' = {"title"} \cup r.ui
        /\ exc' = r.raised
        /\ data' = r.ret
        /\ IF r.raised # "none" \/ r.ret = NoneValue
           THEN pc' = "done" /\ ws' = <<>>
           ELSE pc' = "filters" /\ ws' = <<r.ret>>

MainLoad ==
    /\ pc = "start"
    /\ \/ \E n \in 0..MaxRows : \E f \in [1..n -> Features] : MainLoaded(ReadOk(f))
       \/ \E read \in ReadErrors : MainLoaded(read)
    /\ UNCHANGED <<sel, map, calls, gb_pc, gb_in, gb_out>>

\* app.py:312-313, one turn of the loop: filter_data(filtered_data, column)
MainFilter ==
    /\ pc = "filters"
    /\ LET column == Columns[Len(sel) + 1]
           filtered_data == ws[Len(ws)]
       IN  \E selection \in col_unique_list(filtered_data, column) :
             /\ sel' = Append(sel, selection)
             /\ ws' = Append(ws, filter_data(filtered_data, column, selection))
             /\ ui' = ui \cup {column}
    /\ pc' = IF Len(sel) + 1 = Len(Columns) THEN "content" ELSE "filters"
    /\ UNCHANGED <<data, map, calls, exc, gb_pc, gb_in, gb_out>>

\* app.py:315-350
MainContent ==
    /\ pc = "content"
    /\ LET r == main_content(data, ws[Len(ws)])
       IN  /\ ui' = ui \cup r.ui
           /\ map' = r.map
           /\ calls' = r.calls
           /\ exc' = r.raised
    /\ pc' = "done"
    /\ UNCHANGED <<data, ws, sel, gb_pc, gb_in, gb_out>>

\* a widget change: Streamlit runs the script again from the top
Rerun ==
    /\ pc = "done"
    /\ pc' = "start"
    /\ data' = Unbound
    /\ ws' = <<>>
    /\ sel' = <<>>
    /\ ui' = {}
    /\ map' = NoMap
    /\ calls' = <<>>
    /\ exc' = "none"
    /\ UNCHANGED <<gb_pc, gb_in, gb_out>>

Next == MainLoad \/ MainFilter \/ MainContent \/ Rerun

Spec == Init /\ [][Next]_vars

(* ------------------- get_bounds called on its own -------------------- *)

Lats == {0, 100, 102, 5000, 5002, 20000, 20002, 50000, 50002}
Lons == {0, 100, 5002, 20000, 50002, 100000}

Points == [geometry : Lons \X Lats]

BoundsInit ==
    /\ MainIdle
    /\ gb_pc = "ready"
    /\ \E n \in 0..MaxPoints : \E f \in [1..n -> Points] : gb_in = GeoDataFrame(f)
    /\ gb_out = Raise("not called")

CallGetBounds ==
    /\ gb_pc = "ready"
    /\ gb_out' = get_bounds(gb_in)
    /\ gb_pc' = IF gb_out'.raised = "none" THEN "returned" ELSE "raised"
    /\ UNCHANGED <<pc, data, ws, sel, ui, map, calls, exc, gb_in>>

BoundsNext == CallGetBounds

BoundsSpec == BoundsInit /\ [][BoundsNext]_vars

(* ------------------------------ claims ------------------------------- *)

Stages == 1..Len(sel)
Size(gdf) == Cardinality(Index(gdf))
SubFrame(a, b) ==
    /\ Index(a) \subseteq Index(b)
    /\ \A i \in Index(a) : a.rows[i] = b.rows[i]
Matching(gdf, col, v) == {i \in Index(gdf) : gdf.rows[i][col] = v}
Unfiltered == sel = <<None, None, None>>
PipelineDone == pc = "done" /\ Len(ws) = Len(Columns) + 1
FilteredSet == ws[Len(ws)]

\* C1: at every stage, for each of State, LGA and Name, selecting a value V
\* the dropdown offers (a distinct non-null value of the column in the
\* working set) makes filter_data return exactly the rows of the working
\* set whose attribute equals V: all returned rows have it, none that has
\* it is left out, and the result is no larger than the input.
C1_SelectedValueFiltersExactly ==
    \A k \in Stages :
        sel[k] # None =>
            /\ sel[k] \in Unique(ws[k], Columns[k])
            /\ Index(ws[k + 1]) = Matching(ws[k], Columns[k], sel[k])
            /\ SubFrame(ws[k + 1], ws[k])
            /\ \A i \in Index(ws[k + 1]) : ws[k + 1].rows[i][Columns[k]] = sel[k]
            /\ Size(ws[k + 1]) <= Size(ws[k])

\* C2: an unset stage passes its working set through unchanged, and with
\* State, LGA and Name all unset the filtered set is the loaded dataset.
C2_UnsetIsIdentity ==
    /\ \A k \in Stages : sel[k] = None => ws[k + 1] = ws[k]
    /\ (Len(sel) = Len(Columns) /\ Unfiltered) => FilteredSet = data

C2_Witness == pc = "done" /\ Unfiltered /\ ~Empty(data) /\ FilteredSet = data

\* C3: in every run, whatever was selected, the working set after each
\* stage is a subset of the working set before it, and every working set,
\* the filtered set included, is a subset of the loaded dataset.
C3_FilteredIsSubset ==
    /\ \A k \in Stages : SubFrame(ws[k + 1], ws[k])
    /\ \A k \in 1..Len(ws) : SubFrame(ws[k], data)

C3_Witness ==
    /\ PipelineDone
    /\ ~Empty(FilteredSet)
    /\ Size(ws[2]) < Size(ws[1])
    /\ sel[2] # None
    /\ sel[3] # None

Extent(gdf) == Max({Max(Ys(gdf)) - Min(Ys(gdf)), Max(Xs(gdf)) - Min(Xs(gdf))})

\* C4: on every non-empty set of points get_bounds returns, and the zoom it
\* returns is the one the thresholds give for extent = max(latitude span,
\* longitude span): 12 up to 0.01 degree, 10 up to 0.5, 8 up to 2, 6 up to
\* 5, else 4, boundaries inclusive; extent 0 gives 12, extent 10 degrees
\* gives 4, and the zoom is one of 4, 6, 8, 10, 12.
C4_ZoomFromExtent ==
    (gb_pc # "ready" /\ ~Empty(gb_in)) =>
        /\ gb_pc = "returned"
        /\ LET e == Extent(gb_in)
               z == gb_out.zoom
           IN  /\ z \in {4, 6, 8, 10, 12}
               /\ z = 12 <=> e <= 100
               /\ z = 10 <=> (100 < e /\ e <= 5000)
               /\ z = 8 <=> (5000 < e /\ e <= 20000)
               /\ z = 6 <=> (20000 < e /\ e <= 50000)
               /\ z = 4 <=> 50000 < e
               /\ e = 0 => z = 12
               /\ e = 100000 => z = 4

C4_Witness ==
    /\ gb_pc = "returned"
    /\ Size(gb_in) = 2
    /\ Max(Ys(gb_in)) - Min(Ys(gb_in)) = 5000
    /\ Max(Xs(gb_in)) - Min(Xs(gb_in)) = 20000
    /\ gb_out.zoom = 8

\* C5: get_bounds on an empty frame raises ValueError and returns no
\* (center latitude, center longitude, zoom).
C5_EmptyRaises ==
    (gb_pc # "ready" /\ Empty(gb_in)) =>
        /\ gb_pc = "raised"
        /\ gb_out = Raise("ValueError")
        /\ DOMAIN gb_out = {"raised"}

C5_Witness == Empty(gb_in) /\ gb_pc = "raised" /\ gb_out.raised = "ValueError"

\* C6: load_data never raises; when the read fails it returns None and an
\* error message is shown, and the run ends there: no dropdown, statistics
\* or map is rendered.
C6_LoadFailureHalts ==
    pc # "start" =>
        /\ data # Unbound
        /\ exc \notin {r.error : r \in ReadErrors}
        /\ data = NoneValue =>
              /\ pc = "done"
              /\ "error" \in ui
              /\ ui \cap {"State", "LGA", "Name", "statistics", "map", "warning"} = {}
              /\ map = NoMap
              /\ ws = <<>> /\ sel = <<>> /\ calls = <<>>

C6_Witness == pc = "done" /\ data = NoneValue /\ ui = {"title", "error"}

\* C7: when the filtered set is empty at the end of the pipeline the run
\* shows the "no matches" notice, renders neither statistics nor map and
\* raises nothing; when it is non-empty statistics and map are rendered
\* and the notice is not shown.
C7_EmptyResultNotice ==
    PipelineDone =>
        IF Empty(FilteredSet)
        THEN /\ "warning" \in ui
             /\ "statistics" \notin ui
             /\ "map" \notin ui
             /\ map = NoMap
             /\ exc = "none"
        ELSE /\ "statistics" \in ui
             /\ "map" \in ui
             /\ map # NoMap
             /\ "warning" \notin ui

C7_Witness == PipelineDone /\ Empty(FilteredSet) /\ "warning" \in ui

\* C8: in every run where State, LGA and Name are all unset, the map is
\* centred on DEFAULT_CENTER at DEFAULT_ZOOM and get_bounds is not called.
C8_DefaultViewWhenUnfiltered ==
    (PipelineDone /\ Unfiltered /\ map # NoMap) =>
        /\ map.center = DEFAULT_CENTER
        /\ map.zoom = DEFAULT_ZOOM
        /\ calls = <<>>

\* C9: in every run, for any loaded dataset (an empty one included) and
\* any selections, get_bounds is called with non-empty frames only, and
\* its ValueError never escapes.
C9_BoundsNeverOnEmpty ==
    /\ \A k \in 1..Len(calls) : ~Empty(calls[k])
    /\ exc # "ValueError"

C9_Witness == pc = "done" /\ Len(calls) = 1 /\ ~Empty(calls[1]) /\ "map" \in ui

====
